---------------------------- MODULE Spec2Model ----------------------------
(***************************************************************************)
(* Geometry of the Shukhov tower (taylorjg/shukhov-tower).                 *)
(*                                                                         *)
(* The repository holds four generations of tower.ts:                      *)
(*   src/unnamed/part_000  single section                                  *)
(*   src/src/tower.ts      single section + calculateWaistGeometry         *)
(*   src/unnamed/part_003  several sections of equal height ("uniform")    *)
(*   src/unnamed/part_001  several sections, triangular weights            *)
(*                         ("weighted")                                    *)
(* and main.ts (src/unnamed/part_002) with the control panel of            *)
(* src/src/controls.ts.                                                    *)
(*                                                                         *)
(* Spec applies the four createTower and calculateWaistGeometry to bounded *)
(* inputs, SpecWaist the waist solver to a wider range of radii, SpecApp   *)
(* runs the page: query string, initial build, control panel, rebuilds.    *)
(*                                                                         *)
(* Numbers.  A JavaScript number is modelled as an exact rational          *)
(* [n |-> numerator, d |-> denominator], d > 0, in lowest terms; d = 0     *)
(* encodes the non-finite values (n = 1: +Infinity, n = -1: -Infinity,     *)
(* n = 0: NaN).  IEEE-754 rounding is not modelled: every statement below  *)
(* is a statement of exact arithmetic, i.e. of the code up to floating     *)
(* tolerance.                                                              *)
(*                                                                         *)
(* Square roots.  The result of Math.sqrt is kept as the surd              *)
(* [neg |-> FALSE, sq |-> x], the non-negative real whose square is x.     *)
(*                                                                         *)
(* Angles.  An angle is q quarter turns plus p times ALPHA, where          *)
(* ALPHA = atan(4/3) ~ 53.13 degrees is the angle of the 3-4-5 triangle:   *)
(* these are angles whose sine and cosine are rational, so that Math.cos   *)
(* and Math.sin are computed exactly.  Degrees are [deg |-> 90*q,          *)
(* alpha |-> p]; radians are [halfPi |-> q, alpha |-> p].                  *)
(***************************************************************************)
EXTENDS Integers, Sequences, FiniteSets, TLC

VARIABLES params, tower, waist, scene, builds, undisposed, pc

vars == <<params, tower, waist, scene, builds, undisposed, pc>>

\* the state of the page: the tower groups in the scene, the number of
\* createTower calls so far (the identity of the newest group), the
\* geometries and materials created and not disposed, and the position in
\* main.ts
appVars == <<scene, builds, undisposed, pc>>

-----------------------------------------------------------------------------
(* JavaScript numbers as exact rationals *)

RECURSIVE GCD(_, _)
GCD(a, b) == IF b = 0 THEN a ELSE GCD(b, a % b)

IAbs(n) == IF n < 0 THEN -n ELSE n

Sign(n) == IF n < 0 THEN -1 ELSE IF n > 0 THEN 1 ELSE 0

\* the rational n/d (d > 0) in lowest terms
Norm(n, d) ==
    LET g == GCD(IAbs(n), d)
    IN  [n |-> n \div g, d |-> d \div g]

Int2R(k) == [n |-> k, d |-> 1]

Zero == Int2R(0)

One == Int2R(1)

NaN == [n |-> 0, d |-> 0]

IsNaN(x) == x.d = 0 /\ x.n = 0

\* x + y
RAdd(x, y) ==
    IF x.d # 0 /\ y.d # 0
    THEN LET g == GCD(x.d, y.d)
         IN  Norm(x.n * (y.d \div g) + y.n * (x.d \div g), (x.d \div g) * y.d)
    ELSE IF x.d = 0 /\ y.d = 0
         THEN (IF x.n = y.n THEN x ELSE NaN)
         ELSE IF x.d = 0 THEN x ELSE y

\* -x
RNeg(x) == [n |-> -x.n, d |-> x.d]

\* x - y
RSub(x, y) == RAdd(x, RNeg(y))

\* x * y
RMul(x, y) ==
    IF x.d # 0 /\ y.d # 0
    THEN LET g1 == GCD(IAbs(x.n), y.d)
             g2 == GCD(IAbs(y.n), x.d)
         IN  [n |-> (x.n \div g1) * (y.n \div g2), d |-> (x.d \div g2) * (y.d \div g1)]
    ELSE [n |-> Sign(x.n) * Sign(y.n), d |-> 0]

\* x / y  (x / 0 is +-Infinity, 0 / 0 is NaN)
RDiv(x, y) ==
    IF x.d # 0 /\ y.d # 0
    THEN IF y.n # 0
         THEN RMul(x, [n |-> y.d * Sign(y.n), d |-> IAbs(y.n)])
         ELSE [n |-> Sign(x.n), d |-> 0]
    ELSE IF x.d # 0
         THEN (IF y.n = 0 THEN NaN ELSE Zero)
         ELSE IF y.d = 0
              THEN NaN
              ELSE [n |-> x.n * (IF y.n < 0 THEN -1 ELSE 1), d |-> 0]

\* a/b < c/d for b, d > 0, by continued fractions (no product is formed)
RECURSIVE FracLt(_, _, _, _)
FracLt(a, b, c, d) ==
    LET q1 == a \div b
        q2 == c \div d
        r1 == a % b
        r2 == c % d
    IN  IF q1 # q2 THEN q1 < q2
        ELSE IF r2 = 0 THEN FALSE
        ELSE IF r1 = 0 THEN TRUE
        ELSE FracLt(d, r2, b, r1)

\* x < y  (false when either is NaN)
RLt(x, y) ==
    IF IsNaN(x) \/ IsNaN(y) THEN FALSE
    ELSE IF x.d = 0 THEN x.n < 0 /\ y # x
    ELSE IF y.d = 0 THEN y.n > 0
    ELSE FracLt(x.n, x.d, y.n, y.d)

\* x <= y  (false when either is NaN)
RLe(x, y) == ~IsNaN(x) /\ ~IsNaN(y) /\ (x = y \/ RLt(x, y))

\* Math.abs
MathAbs(x) == [n |-> IAbs(x.n), d |-> x.d]

\* Math.max
MathMax(x, y) ==
    IF IsNaN(x) \/ IsNaN(y) THEN NaN ELSE IF RLt(x, y) THEN y ELSE x

\* Math.min
MathMin(x, y) ==
    IF IsNaN(x) \/ IsNaN(y) THEN NaN ELSE IF RLt(y, x) THEN y ELSE x

\* Math.sqrt, as a surd: the non-negative real whose square is x
MathSqrt(x) ==
    IF IsNaN(x) \/ RLt(x, Zero)
    THEN [neg |-> FALSE, sq |-> NaN]
    ELSE [neg |-> FALSE, sq |-> x]

\* a number as a surd
Surd(x) == [neg |-> RLt(x, Zero), sq |-> RMul(x, x)]

\* u <= v for surds
SurdLe(u, v) ==
    /\ ~IsNaN(u.sq) /\ ~IsNaN(v.sq)
    /\ IF u.neg
       THEN (~v.neg \/ RLe(v.sq, u.sq))
       ELSE (~v.neg /\ RLe(u.sq, v.sq))

\* u < v for surds
SurdLt(u, v) == SurdLe(u, v) /\ u # v

-----------------------------------------------------------------------------
(* Angles with rational sine and cosine *)

\* twistRadians = (twistAngle * Math.PI) / 180: degrees to units of PI/2
TwistRadians(twistAngle) ==
    [halfPi |-> twistAngle.deg \div 90, alpha |-> twistAngle.alpha]

\* the sum of two angles in radians
AngleAdd(x, y) == [halfPi |-> x.halfPi + y.halfPi, alpha |-> x.alpha + y.alpha]

\* unary minus on an angle in radians
AngleNeg(x) == [halfPi |-> -x.halfPi, alpha |-> -x.alpha]

\* Math.abs on an angle in radians (ALPHA is less than a quarter turn)
AngleAbs(x) ==
    IF x.halfPi < 0 \/ (x.halfPi = 0 /\ x.alpha < 0) THEN AngleNeg(x) ELSE x

\* cosine and sine of alpha * ALPHA, alpha in -1..1: the 3-4-5 triangle
CosAlpha(alpha) == IF alpha = 0 THEN One ELSE Norm(3, 5)

SinAlpha(alpha) ==
    IF alpha = 0 THEN Zero ELSE IF alpha > 0 THEN Norm(4, 5) ELSE Norm(-4, 5)

\* Math.cos
MathCos(x) ==
    LET m == x.halfPi % 4
    IN  CASE m = 0 -> CosAlpha(x.alpha)
          [] m = 1 -> RNeg(SinAlpha(x.alpha))
          [] m = 2 -> RNeg(CosAlpha(x.alpha))
          [] m = 3 -> SinAlpha(x.alpha)

\* Math.sin
MathSin(x) ==
    LET m == x.halfPi % 4
    IN  CASE m = 0 -> SinAlpha(x.alpha)
          [] m = 1 -> CosAlpha(x.alpha)
          [] m = 2 -> RNeg(SinAlpha(x.alpha))
          [] m = 3 -> RNeg(CosAlpha(x.alpha))

-----------------------------------------------------------------------------
(* Ruled-surface evaluator *)

\* r^2(t) = (1-t)^2 a^2 + t^2 b^2 + 2 (1-t) t a b cos(phi)
RSquared(t, a, b, cosPhi) ==
    LET u == RSub(One, t)
    IN  RAdd(RAdd(RMul(RMul(RMul(u, u), a), a),
                  RMul(RMul(RMul(t, t), b), b)),
             RMul(RMul(RMul(RMul(RMul(Int2R(2), u), t), a), b), cosPhi))

\* faulty variant: the radius of the cone, interpolated linearly between the circles
getStrutRadiusOfCone(normalizedHeight, baseRadius, topRadius, twistAngleRadians) ==
    Surd(RAdd(RMul(RSub(One, normalizedHeight), baseRadius),
              RMul(normalizedHeight, topRadius)))

\* faulty variant: the normalized height measured from the top circle
getStrutRadiusFromTop(normalizedHeight, baseRadius, topRadius, twistAngleRadians) ==
    LET cosPhi   == MathCos(twistAngleRadians)
        rSquared == RSquared(RSub(One, normalizedHeight), baseRadius, topRadius, cosPhi)
    IN  MathSqrt(MathMax(Zero, rSquared))

getStrutRadiusAtHeight(normalizedHeight, baseRadius, topRadius, twistAngleRadians) ==
    LET cosPhi   == MathCos(twistAngleRadians)
        rSquared == RSquared(normalizedHeight, baseRadius, topRadius, cosPhi)
    IN  MathSqrt(MathMax(Zero, rSquared))

\* the tolerance 0.0001 of the degenerate-denominator guard
WaistEpsilon == Norm(1, 10000)

\* the value of a local the call did not compute
NoValue == [none |-> TRUE]

\* denominator = a*a + b*b + 2*a*b*cos(phi)
WaistDenominator(a, b, cosPhi) ==
    RAdd(RAdd(RMul(a, a), RMul(b, b)), RMul(RMul(RMul(Int2R(2), a), b), cosPhi))

\* faulty variant: the guard with a tolerance of 0.001
WaistGuardLoose(denominator) == RLt(MathAbs(denominator), Norm(1, 1000))

\* faulty variant: the division performed whatever the denominator
WaistGuardMissing(denominator) == FALSE

\* Math.abs(denominator) < 0.0001
WaistGuard(denominator) == RLt(MathAbs(denominator), WaistEpsilon)

\* the early return: { waistPosition: 0.5, waistRadius: (a + b) / 2 }
WaistFallback(a, b) ==
    [waistPosition |-> Norm(1, 2),
     waistRadius   |-> Surd(RDiv(RAdd(a, b), Int2R(2)))]

\* tWaist = (a*a + a*b*cos(phi)) / denominator
WaistCritical(a, b, cosPhi, denominator) ==
    RDiv(RAdd(RMul(a, a), RMul(RMul(a, b), cosPhi)), denominator)

\* faulty variant: the critical point used without the clamp
ClampUnitMissing(tWaist) == tWaist

\* faulty variant: Math.min(0, Math.max(1, tWaist))
ClampUnitSwapped(tWaist) == MathMin(Zero, MathMax(One, tWaist))

\* t = Math.max(0, Math.min(1, tWaist))
ClampUnit(tWaist) == MathMax(Zero, MathMin(One, tWaist))

\* calculateWaistGeometry with its locals: denominator, tWaist (NoValue when
\* the early return is taken) and the returned WaistGeometry
calculateWaistTrace(baseRadius, topRadius, twistAngleRadians) ==
    LET a           == baseRadius
        b           == topRadius
        cosPhi      == MathCos(twistAngleRadians)
        denominator == WaistDenominator(a, b, cosPhi)
        tWaist      == WaistCritical(a, b, cosPhi, denominator)
        t           == ClampUnit(tWaist)
        rSquared    == RSquared(t, a, b, cosPhi)
    IN  IF WaistGuard(denominator)
        THEN [denominator |-> denominator,
              tWaist      |-> NoValue,
              result      |-> WaistFallback(a, b)]
        ELSE [denominator |-> denominator,
              tWaist      |-> tWaist,
              result      |-> [waistPosition |-> t,
                               waistRadius   |-> MathSqrt(MathMax(Zero, rSquared))]]

calculateWaistGeometry(baseRadius, topRadius, twistAngleRadians) ==
    calculateWaistTrace(baseRadius, topRadius, twistAngleRadians).result

-----------------------------------------------------------------------------
(* Meshes *)

\* new THREE.Vector3(x, y, z)
Vector3(x, y, z) == [x |-> x, y |-> y, z |-> z]

\* the point of the circle of the given radius at height y and angle theta
CirclePoint(angle, radius, y) ==
    Vector3(RMul(MathCos(angle), radius), y, RMul(MathSin(angle), radius))

\* createStrut(start, end, radius, material): the cylinder from start to end
createStrut(start, end, radius) ==
    [kind |-> "strut", start |-> start, end |-> end, radius |-> radius]

\* createRing(radius, height, tubeRadius, material): the torus at a height
createRing(radius, height, tubeRadius) ==
    [kind |-> "ring", radius |-> radius, height |-> height, tubeRadius |-> tubeRadius]

\* baseAngle = (strutIndex / strutCount) * Math.PI * 2, in units of PI/2
\* (exact for the strut counts that divide 4)
BaseAngle(strutIndex, strutCount) ==
    [halfPi |-> (4 * strutIndex) \div strutCount, alpha |-> 0]

\* faulty variant: both struts of a pair end at theta + twist
StrutPairSameFamily(strutIndex, strutCount, bottomY, topY, bottomRadius, topRadius, twist, strutRadius) ==
    LET baseAngle == BaseAngle(strutIndex, strutCount)
        start     == CirclePoint(baseAngle, bottomRadius, bottomY)
        end       == CirclePoint(AngleAdd(baseAngle, twist), topRadius, topY)
    IN  << createStrut(start, end, strutRadius), createStrut(start, end, strutRadius) >>

\* the two struts of one strut index: first the theta + twist family, then
\* the theta - twist family
StrutPair(strutIndex, strutCount, bottomY, topY, bottomRadius, topRadius, twist, strutRadius) ==
    LET baseAngle   == BaseAngle(strutIndex, strutCount)
        cwEndAngle  == AngleAdd(baseAngle, twist)
        ccwEndAngle == AngleAdd(baseAngle, AngleNeg(twist))
        cwStart     == CirclePoint(baseAngle, bottomRadius, bottomY)
        cwEnd       == CirclePoint(cwEndAngle, topRadius, topY)
        ccwStart    == CirclePoint(baseAngle, bottomRadius, bottomY)
        ccwEnd      == CirclePoint(ccwEndAngle, topRadius, topY)
    IN  << createStrut(cwStart, cwEnd, strutRadius),
           createStrut(ccwStart, ccwEnd, strutRadius) >>

\* the strut loop: for strutIndex = 0 .. strutCount-1, the pair of struts
RECURSIVE StrutLoop(_, _, _, _, _, _, _, _)
StrutLoop(strutIndex, strutCount, bottomY, topY, bottomRadius, topRadius, twist, strutRadius) ==
    IF strutIndex >= strutCount
    THEN << >>
    ELSE StrutPair(strutIndex, strutCount, bottomY, topY, bottomRadius, topRadius,
                   twist, strutRadius)
         \o StrutLoop(strutIndex + 1, strutCount, bottomY, topY, bottomRadius,
                      topRadius, twist, strutRadius)

\* strutRadius * 0.8
TubeRadius(strutRadius) == RMul(strutRadius, Norm(8, 10))

\* one ring of a section: i in 0 .. ringCount
SectionRing(i, ringCount, sec, strutRadius) ==
    LET normalizedH == RDiv(Int2R(i), Int2R(ringCount))
        ringHeight  == RAdd(sec.bottomY, RMul(normalizedH, sec.sectionHeight))
        radius      == getStrutRadiusAtHeight(normalizedH, sec.bottomRadius,
                                              sec.topRadius, AngleAbs(sec.twist))
    IN  createRing(radius, ringHeight, TubeRadius(strutRadius))

\* faulty variant: the ring loop without the skip of the i = 0 ring
RECURSIVE RingLoopAllRings(_, _, _, _, _)
RingLoopAllRings(i, ringCount, section, sec, strutRadius) ==
    IF i > ringCount
    THEN << >>
    ELSE << SectionRing(i, ringCount, sec, strutRadius) >>
         \o RingLoopAllRings(i + 1, ringCount, section, sec, strutRadius)

\* faulty variant: the i = 0 ring skipped in every section
RECURSIVE RingLoopNoBottomRing(_, _, _, _, _)
RingLoopNoBottomRing(i, ringCount, section, sec, strutRadius) ==
    IF i > ringCount
    THEN << >>
    ELSE (IF i = 0
          THEN << >>
          ELSE << SectionRing(i, ringCount, sec, strutRadius) >>)
         \o RingLoopNoBottomRing(i + 1, ringCount, section, sec, strutRadius)

\* the ring loop of a section: the i = 0 ring is skipped after section 0
RECURSIVE RingLoop(_, _, _, _, _)
RingLoop(i, ringCount, section, sec, strutRadius) ==
    IF i > ringCount
    THEN << >>
    ELSE (IF section > 0 /\ i = 0
          THEN << >>
          ELSE << SectionRing(i, ringCount, sec, strutRadius) >>)
         \o RingLoop(i + 1, ringCount, section, sec, strutRadius)

\* the meshes one section adds to the group, in order: struts, then rings
SectionMeshes(p, section, sec) ==
    [sec EXCEPT
       !.struts = StrutLoop(0, p.strutCount, sec.bottomY, sec.topY, sec.bottomRadius,
                            sec.topRadius, sec.twist, p.strutRadius),
       !.rings  = IF p.showRings
                  THEN RingLoop(0, p.ringCount, section, sec, p.strutRadius)
                  ELSE << >>]

\* faulty variant: the alternation reversed
SectionTwistReversed(section, twistRadians) ==
    IF section % 2 = 0 THEN AngleNeg(twistRadians) ELSE twistRadians

\* sectionTwist = section % 2 === 0 ? twistRadians : -twistRadians
SectionTwist(section, twistRadians) ==
    IF section % 2 = 0 THEN twistRadians ELSE AngleNeg(twistRadians)

\* faulty variant: the taper running from the top radius to the base radius
TaperFromTop(baseRadius, topRadius, fraction) ==
    RAdd(topRadius, RMul(RSub(baseRadius, topRadius), fraction))

\* baseRadius + (topRadius - baseRadius) * fraction
Taper(baseRadius, topRadius, fraction) ==
    RAdd(baseRadius, RMul(RSub(topRadius, baseRadius), fraction))

-----------------------------------------------------------------------------
(* Weighted variant (src/unnamed/part_001) *)

\* faulty variant: the weights in increasing order, [1, 2, ..., n]
WeightsIncreasing(sectionCount) == [i \in 1..sectionCount |-> i]

\* weights = [n, n-1, ..., 1]
Weights(sectionCount) == [i \in 1..sectionCount |-> sectionCount - (i - 1)]

\* totalWeight, accumulated over the first count weights
RECURSIVE TotalWeight(_, _)
TotalWeight(weights, count) ==
    IF count = 0 THEN 0 ELSE TotalWeight(weights, count - 1) + weights[count]

\* cumulativeHeight after count sections
RECURSIVE CumulativeHeight(_, _, _, _)
CumulativeHeight(weights, totalWeight, height, count) ==
    IF count = 0
    THEN Zero
    ELSE RAdd(CumulativeHeight(weights, totalWeight, height, count - 1),
              RMul(RDiv(Int2R(weights[count]), Int2R(totalWeight)), height))

\* faulty variant: the totalWeight loop stops one weight short
SectionBoundariesShortTotal(height, sectionCount) ==
    LET weights     == [i \in 1..sectionCount |-> sectionCount - (i - 1)]
        totalWeight == ((sectionCount * (sectionCount + 1)) \div 2) - 1
    IN  [j \in 1..(sectionCount + 1) |->
            CumulativeHeight(weights, totalWeight, height, j - 1)]

\* sectionBoundaries: [0, b1, ..., bn], 1-indexed here
SectionBoundaries(height, sectionCount) ==
    LET weights     == Weights(sectionCount)
        totalWeight == TotalWeight(weights, sectionCount)
    IN  [j \in 1..(sectionCount + 1) |->
            CumulativeHeight(weights, totalWeight, height, j - 1)]

\* the locals of section `section` (0-based) of the weighted tower
WeightedSection(p, sectionBoundaries, section) ==
    LET sectionBottomY == sectionBoundaries[section + 1]
        sectionTopY    == sectionBoundaries[section + 2]
    IN  [bottomY       |-> sectionBottomY,
         topY          |-> sectionTopY,
         sectionHeight |-> RSub(sectionTopY, sectionBottomY),
         bottomRadius  |-> Taper(p.baseRadius, p.topRadius,
                                 RDiv(sectionBottomY, p.height)),
         topRadius     |-> Taper(p.baseRadius, p.topRadius,
                                 RDiv(sectionTopY, p.height)),
         twist         |-> SectionTwist(section, TwistRadians(p.twistAngle)),
         struts        |-> << >>,
         rings         |-> << >>]

createTowerWeighted(p) ==
    LET sectionBoundaries == SectionBoundaries(p.height, p.sectionCount)
    IN  [variant  |-> "weighted",
         params   |-> p,
         sections |-> [s \in 1..p.sectionCount |->
                         SectionMeshes(p, s - 1,
                                       WeightedSection(p, sectionBoundaries, s - 1))]]

-----------------------------------------------------------------------------
(* Uniform variant (src/unnamed/part_003) *)

\* the locals of section `section` (0-based) of the uniform tower
UniformSection(p, section) ==
    LET sectionHeight == RDiv(p.height, Int2R(p.sectionCount))
    IN  [bottomY       |-> RMul(Int2R(section), sectionHeight),
         topY          |-> RMul(Int2R(section + 1), sectionHeight),
         sectionHeight |-> sectionHeight,
         bottomRadius  |-> Taper(p.baseRadius, p.topRadius,
                                 RDiv(Int2R(section), Int2R(p.sectionCount))),
         topRadius     |-> Taper(p.baseRadius, p.topRadius,
                                 RDiv(Int2R(section + 1), Int2R(p.sectionCount))),
         twist         |-> SectionTwist(section, TwistRadians(p.twistAngle)),
         struts        |-> << >>,
         rings         |-> << >>]

createTowerUniform(p) ==
    [variant  |-> "uniform",
     params   |-> p,
     sections |-> [s \in 1..p.sectionCount |->
                     SectionMeshes(p, s - 1, UniformSection(p, s - 1))]]

-----------------------------------------------------------------------------
(* Single-section variants (src/unnamed/part_000, src/src/tower.ts) *)

\* one ring of the single-section tower: i in 0 .. ringCount
SingleRing(i, p) ==
    LET normalizedH == RDiv(Int2R(i), Int2R(p.ringCount))
        ringHeight  == RMul(normalizedH, p.height)
        radius      == getStrutRadiusAtHeight(normalizedH, p.baseRadius, p.topRadius,
                                              TwistRadians(p.twistAngle))
    IN  createRing(radius, ringHeight, TubeRadius(p.strutRadius))

\* the single-section tower: its one section spans [0, height]
SingleSection(p) ==
    [bottomY       |-> Zero,
     topY          |-> p.height,
     sectionHeight |-> p.height,
     bottomRadius  |-> p.baseRadius,
     topRadius     |-> p.topRadius,
     twist         |-> TwistRadians(p.twistAngle),
     struts        |-> StrutLoop(0, p.strutCount, Zero, p.height, p.baseRadius,
                                 p.topRadius, TwistRadians(p.twistAngle), p.strutRadius),
     rings         |-> IF p.showRings
                       THEN [j \in 1..(p.ringCount + 1) |-> SingleRing(j - 1, p)]
                       ELSE << >>]

\* createTower of src/unnamed/part_000
createTowerSingle(p) ==
    [variant |-> "single", params |-> p, sections |-> << SingleSection(p) >>]

\* faulty variant: with autoWaist off, a ring of the manual waistRadius is
\* added at waistPosition
createTowerManualWaist(p) ==
    LET sec       == SingleSection(p)
        waistRing == createRing(p.waistRadius, RMul(p.waistPosition, p.height),
                                TubeRadius(p.strutRadius))
    IN  [variant  |-> "waist",
         params   |-> p,
         sections |-> << IF p.autoWaist
                         THEN sec
                         ELSE [sec EXCEPT !.rings = @ \o << waistRing >>] >>]

\* createTower of src/src/tower.ts: waistRadius, waistPosition and autoWaist
\* are not read
createTowerWaist(p) ==
    [variant |-> "waist", params |-> p, sections |-> << SingleSection(p) >>]

\* the children of the returned group, in the order they were added
RECURSIVE GroupFrom(_, _)
GroupFrom(sections, s) ==
    IF s > Len(sections)
    THEN << >>
    ELSE sections[s].struts \o sections[s].rings \o GroupFrom(sections, s + 1)

Group(t) == GroupFrom(t.sections, 1)

-----------------------------------------------------------------------------
(* Inputs *)

MaxSectionCount == 6

MaxRingCount == 4

\* strut counts whose base angles are whole quarter turns
StrutCounts == {1, 2, 4}

\* twist angles in degrees: 0, 36.87, 53.13, 90, 126.87, 143.13, 180
TwistAngles ==
    { [deg |-> 0,   alpha |-> 0], [deg |-> 90,  alpha |-> -1],
      [deg |-> 0,   alpha |-> 1], [deg |-> 90,  alpha |-> 0],
      [deg |-> 180, alpha |-> -1], [deg |-> 90, alpha |-> 1],
      [deg |-> 180, alpha |-> 0] }

Heights == { Int2R(60), Int2R(300) }

\* <<baseRadius, topRadius>>
RadiusPairs ==
    { <<Int2R(60), Int2R(5)>>, <<Int2R(10), Int2R(10)>>,
      <<Int2R(5), Int2R(60)>>, <<Int2R(30), Zero>> }

\* radii of the waist solver's inputs: of the scale of the control panel's
\* sliders, and of the scale of the degenerate-denominator guard
BigRadii == { Zero, Int2R(5), Int2R(10), Int2R(60) }

SmallRadii == { Zero, Norm(1, 250), Norm(1, 200), Norm(1, 100) }

\* <<baseRadius, topRadius>>
WaistRadiusPairs == (BigRadii \X BigRadii) \cup (SmallRadii \X SmallRadii)

\* values of the Waist Radius slider (5 .. 50) and of the Waist Position
\* slider (0.1 .. 0.9)
WaistSliderRadii == { Surd(Int2R(5)), Surd(Int2R(20)), Surd(Int2R(50)) }

WaistSliderPositions == { Norm(1, 10), Norm(1, 2), Norm(9, 10) }

\* the waist shown before the first update
InitialWaistRadius == Surd(Int2R(20))

InitialWaistPosition == Norm(1, 2)

TowerParams(height, radii, sectionCount, strutCount, ringCount, showRings, twistAngle, autoWaist) ==
    [height        |-> height,
     baseRadius    |-> radii[1],
     topRadius     |-> radii[2],
     sectionCount  |-> sectionCount,
     strutCount    |-> strutCount,
     ringCount     |-> ringCount,
     strutRadius   |-> Norm(1, 2),
     showRings     |-> showRings,
     twistAngle    |-> twistAngle,
     waistRadius   |-> InitialWaistRadius,
     waistPosition |-> InitialWaistPosition,
     autoWaist     |-> autoWaist]

-----------------------------------------------------------------------------
(* Spec: the tower builders applied to bounded inputs *)

Init ==
    /\ \E height \in Heights, radii \in RadiusPairs,
          sectionCount \in 1..MaxSectionCount, strutCount \in StrutCounts,
          ringCount \in 1..MaxRingCount, showRings \in BOOLEAN,
          twistAngle \in TwistAngles :
          \* ringCount is read only when the rings are shown
          /\ showRings \/ ringCount = 1
          /\ params = TowerParams(height, radii, sectionCount, strutCount, ringCount,
                                  showRings, twistAngle, TRUE)
    /\ tower = NoValue
    /\ waist = NoValue
    /\ scene = {}
    /\ builds = 0
    /\ undisposed = {}
    /\ pc = "pure"

\* createTower(params) of src/unnamed/part_001
BuildWeighted ==
    /\ tower = NoValue
    /\ tower' = createTowerWeighted(params)
    /\ UNCHANGED <<params, waist>>
    /\ UNCHANGED appVars

\* createTower(params) of src/unnamed/part_003
BuildUniform ==
    /\ tower = NoValue
    /\ tower' = createTowerUniform(params)
    /\ UNCHANGED <<params, waist>>
    /\ UNCHANGED appVars

\* createTower(params) of src/unnamed/part_000, whose TowerParams has no
\* sectionCount (1 here)
BuildSingle ==
    /\ tower = NoValue
    /\ params.sectionCount = 1
    /\ tower' = createTowerSingle(params)
    /\ UNCHANGED <<params, waist>>
    /\ UNCHANGED appVars

\* createTower(params) of src/src/tower.ts, whose TowerParams has no
\* sectionCount (1 here)
BuildWaist ==
    /\ tower = NoValue
    /\ params.sectionCount = 1
    /\ tower' = createTowerWaist(params)
    /\ UNCHANGED <<params, waist>>
    /\ UNCHANGED appVars

\* calculateWaistGeometry(baseRadius, topRadius, twistRadians) for the section
\* of the tower of src/src/tower.ts
SolveWaist ==
    /\ tower # NoValue
    /\ tower.variant = "waist"
    /\ waist = NoValue
    /\ waist' = [a   |-> params.baseRadius,
                 b   |-> params.topRadius,
                 phi |-> params.twistAngle]
                @@ calculateWaistTrace(params.baseRadius, params.topRadius,
                                       TwistRadians(params.twistAngle))
    /\ UNCHANGED <<params, tower>>
    /\ UNCHANGED appVars

Next == BuildWeighted \/ BuildUniform \/ BuildSingle \/ BuildWaist \/ SolveWaist

Spec == Init /\ [][Next]_vars

-----------------------------------------------------------------------------
(* SpecWaist: the waist solver applied to bounded inputs *)

InitWaist ==
    /\ \E radii \in WaistRadiusPairs, twistAngle \in TwistAngles,
          autoWaist \in BOOLEAN :
          params = TowerParams(Int2R(300), radii, 1, 4, 2, TRUE, twistAngle, autoWaist)
    /\ tower = NoValue
    /\ waist = NoValue
    /\ scene = {}
    /\ builds = 0
    /\ undisposed = {}
    /\ pc = "pure"

\* calculateWaistGeometry(baseRadius, topRadius, twistRadians), with its locals
CalculateWaist ==
    /\ waist' = [a   |-> params.baseRadius,
                 b   |-> params.topRadius,
                 phi |-> params.twistAngle]
                @@ calculateWaistTrace(params.baseRadius, params.topRadius,
                                       TwistRadians(params.twistAngle))
    /\ UNCHANGED <<params, tower>>
    /\ UNCHANGED appVars

\* updateAutoWaist of src/src/controls.ts
UpdateAutoWaist ==
    /\ params' =
         IF params.autoWaist
         THEN LET w == calculateWaistGeometry(params.baseRadius, params.topRadius,
                                              TwistRadians(params.twistAngle))
              IN  [params EXCEPT !.waistRadius = w.waistRadius,
                                 !.waistPosition = w.waistPosition]
         ELSE params
    /\ UNCHANGED <<tower, waist>>
    /\ UNCHANGED appVars

NextWaist == CalculateWaist \/ UpdateAutoWaist

SpecWaist == InitWaist /\ [][NextWaist]_vars

-----------------------------------------------------------------------------
(* SpecApp: the page, main.ts and the control panel of controls.ts *)

\* the number of createTower calls of a run
MaxBuilds == 3

\* the default tower parameters of main.ts, with the strut count and the
\* twist angle of the model's angles (4 for 24, 53.13 degrees for 50), and
\* the waist fields of the TowerParams of src/src/tower.ts
DefaultParams(autoWaist) ==
    TowerParams(Int2R(300), <<Int2R(60), Int2R(5)>>, 6, 4, 4, TRUE,
                [deg |-> 0, alpha |-> 1], autoWaist)

\* window.location.search, as the keys of paramMap whose value is present
\* and parsed by parseFloat to a number (not NaN), with those numbers
QueryStrings ==
    LET none == [present |-> {}, height |-> Zero, baseRadius |-> Zero,
                 topRadius |-> Zero, sectionCount |-> 0, ringCount |-> 0,
                 twistAngle |-> [deg |-> 0, alpha |-> 0]]
    IN  { none,
          [none EXCEPT !.present = {"height"}, !.height = Zero],
          [none EXCEPT !.present = {"height"}, !.height = Int2R(-60)],
          [none EXCEPT !.present = {"sectionCount"}, !.sectionCount = 0],
          [none EXCEPT !.present = {"sectionCount"}, !.sectionCount = -1],
          [none EXCEPT !.present = {"ringCount"}, !.ringCount = 0],
          [none EXCEPT !.present = {"sectionCount", "ringCount", "baseRadius",
                                    "topRadius", "twistAngle"},
                       !.sectionCount = 2, !.ringCount = 2,
                       !.baseRadius = Int2R(10), !.topRadius = Int2R(10),
                       !.twistAngle = [deg |-> 180, alpha |-> 0]] }

\* if (value !== null) { numValue = parseFloat(value);
\*                       if (!isNaN(numValue)) params[key] = numValue }
QueryValue(query, key, default) ==
    IF key \in query.present THEN query[key] ELSE default

\* applyQueryParams: the loop over paramMap
applyQueryParams(p, query) ==
    [p EXCEPT !.height       = QueryValue(query, "height", @),
              !.baseRadius   = QueryValue(query, "baseRadius", @),
              !.topRadius    = QueryValue(query, "topRadius", @),
              !.sectionCount = QueryValue(query, "sectionCount", @),
              !.ringCount    = QueryValue(query, "ringCount", @),
              !.twistAngle   = QueryValue(query, "twistAngle", @)]

\* a geometry or a material created by the build-th call of createTower
Resource(build, kind, index) == [build |-> build, kind |-> kind, index |-> index]

\* the material createStrut and createRing were handed for a mesh
MaterialOf(mesh) == IF mesh.kind = "strut" THEN "strutMaterial" ELSE "ringMaterial"

\* createTower: the two materials, and the geometry of each mesh
CreatedResources(build, t) ==
    LET group == Group(t)
    IN  { Resource(build, "strutMaterial", 0), Resource(build, "ringMaterial", 0) }
           \cup { Resource(build, "geometry", m) : m \in 1..Len(group) }

\* disposeTower(group): group.traverse disposes the geometry and the
\* material of every mesh of the group
DisposedResources(build, t) ==
    LET group == Group(t)
    IN  { Resource(build, "geometry", m) : m \in 1..Len(group) }
           \cup { Resource(build, MaterialOf(group[m]), 0) : m \in 1..Len(group) }

\* faulty variant: the previous group is disposed but stays in the scene
rebuildTowerWithoutRemove(p) ==
    LET group == createTowerWeighted(p)
    IN  [tower      |-> group,
         builds     |-> builds + 1,
         scene      |-> scene \cup {builds + 1},
         undisposed |-> (IF tower # NoValue
                         THEN undisposed \ DisposedResources(builds, tower)
                         ELSE undisposed)
                        \cup CreatedResources(builds + 1, group)]

\* rebuildTower, called with the parameters p: the next towerGroup, scene and
\* undisposed resources
rebuildTower(p) ==
    LET group == createTowerWeighted(p)
    IN  [tower      |-> group,
         builds     |-> builds + 1,
         scene      |-> (IF tower # NoValue THEN scene \ {builds} ELSE scene)
                        \cup {builds + 1},
         undisposed |-> (IF tower # NoValue
                         THEN undisposed \ DisposedResources(builds, tower)
                         ELSE undisposed)
                        \cup CreatedResources(builds + 1, group)]

\* updateAutoWaist, on the parameter object
updateAutoWaist(p) ==
    IF p.autoWaist
    THEN LET w == calculateWaistGeometry(p.baseRadius, p.topRadius,
                                         TwistRadians(p.twistAngle))
         IN  [p EXCEPT !.waistRadius = w.waistRadius,
                       !.waistPosition = w.waistPosition]
    ELSE p

\* faulty variant: the wrapper rebuilds without updating the waist
onParamChangeWithoutUpdate(p) == p

\* onParamChange: updateAutoWaist(), then onUpdate() with the result
onParamChange(p) == updateAutoWaist(p)


\* the controllers of the control panel
Controls ==
    { "height", "baseRadius", "topRadius", "autoWaist", "twistAngle", "waistRadius",
      "waistPosition", "strutCount", "ringCount", "strutRadius", "showRings" }

\* values a controller sets, within the range of its slider (strut counts:
\* those of the model's angles, for 6 .. 48)
ControlValues(control) ==
    CASE control = "height"        -> { Int2R(60), Int2R(300) }
      [] control = "baseRadius"    -> { Int2R(10), Int2R(60) }
      [] control = "topRadius"     -> { Int2R(5), Int2R(10) }
      [] control = "autoWaist"     -> BOOLEAN
      [] control = "twistAngle"    -> { [deg |-> 0, alpha |-> 1], [deg |-> 180, alpha |-> 0] }
      [] control = "waistRadius"   -> WaistSliderRadii
      [] control = "waistPosition" -> WaistSliderPositions
      [] control = "strutCount"    -> { 2, 4 }
      [] control = "ringCount"     -> { 2, 4 }
      [] control = "strutRadius"   -> { Norm(1, 2), One }
      [] control = "showRings"     -> BOOLEAN

\* the controllers whose onChange is onParamChange (for autoWaist: after the
\* waist sliders are enabled or disabled); the others call onUpdate
ParamChangeControls == { "baseRadius", "topRadius", "autoWaist", "twistAngle" }

\* pointerEvents is 'none' on the two waist sliders while autoWaist is on
ControlEnabled(control) ==
    control \in { "waistRadius", "waistPosition" } => ~params.autoWaist

\* the parameter object when the controller's onChange calls onUpdate: the
\* property is set, then onParamChange updates the waist where it is the
\* handler
ParamsOnUpdate(control, v) ==
    LET p == [params EXCEPT ![control] = v]
    IN  IF control \in ParamChangeControls THEN onParamChange(p) ELSE p

InitApp ==
    /\ \E autoWaist \in BOOLEAN : params = DefaultParams(autoWaist)
    /\ tower = NoValue
    /\ waist = NoValue
    /\ scene = {}
    /\ builds = 0
    /\ undisposed = {}
    /\ pc = "start"

\* applyQueryParams()
ApplyQueryParams ==
    /\ pc = "start"
    /\ \E query \in QueryStrings : params' = applyQueryParams(params, query)
    /\ pc' = "build"
    /\ UNCHANGED <<tower, waist, scene, builds, undisposed>>

\* rebuildTower() with the parameter object p: params is p from here on
Rebuild(p) ==
    LET r == rebuildTower(p)
    IN  /\ params' = p
        /\ tower' = r.tower
        /\ builds' = r.builds
        /\ scene' = r.scene
        /\ undisposed' = r.undisposed
        /\ UNCHANGED waist

\* the initial tower build
InitialBuild ==
    /\ pc = "build"
    /\ Rebuild(params)
    /\ pc' = "setup"

\* setupControls(params, rebuildTower): the controllers are added and the
\* initial auto-waist values calculated
SetupControls ==
    /\ pc = "setup"
    /\ params' = updateAutoWaist(params)
    /\ pc' = "run"
    /\ UNCHANGED <<tower, waist, scene, builds, undisposed>>

\* a change event of a controller: the property is set, then onChange runs
\* and rebuilds the tower
ControlChange ==
    /\ pc = "run"
    /\ builds < MaxBuilds
    /\ \E control \in Controls :
          /\ ControlEnabled(control)
          /\ \E v \in ControlValues(control) : Rebuild(ParamsOnUpdate(control, v))
    /\ UNCHANGED pc

NextApp == ApplyQueryParams \/ InitialBuild \/ SetupControls \/ ControlChange

SpecApp == InitApp /\ [][NextApp]_vars

-----------------------------------------------------------------------------
(* Properties of the waist solver, checked under SpecWaist *)

\* the number of steps of the sampled normalized heights t = k / SampleCount
SampleCount == 4

\* the surface radius r(t, a, b, phi) of the computed waist's section
WaistSectionRadius(t) ==
    getStrutRadiusAtHeight(t, waist.a, waist.b, TwistRadians(waist.phi))

\* C7: for every a >= 0, b >= 0 and twist phi, the waistRadius returned by
\* calculateWaistGeometry(a, b, phi) is no greater than the surface radius
\* r(t, a, b, phi) at every sampled t in [0,1].
WaistIsMinimumRadius ==
    waist # NoValue =>
        \A k \in 0..SampleCount :
            SurdLe(waist.result.waistRadius, WaistSectionRadius(Norm(k, SampleCount)))

\* a^2 + b^2 + 2ab cos(phi) of the computed waist's inputs
WaistInputDenominator ==
    LET c == MathCos(TwistRadians(waist.phi))
    IN  RAdd(RAdd(RMul(waist.a, waist.a), RMul(waist.b, waist.b)),
             RMul(Int2R(2), RMul(RMul(waist.a, waist.b), c)))

\* |a^2 + b^2 + 2ab cos(phi)| < 0.0001 for the computed waist's inputs
WaistInputDegenerate ==
    /\ RLt(WaistInputDenominator, Norm(1, 10000))
    /\ RLt(Norm(-1, 10000), WaistInputDenominator)

\* C8: calculateWaistGeometry returns exactly {waistPosition: 0.5,
\* waistRadius: (a+b)/2}, without performing the division, whenever
\* |a^2 + b^2 + 2ab cos(phi)| < 0.0001, and takes that early return only then
\* (otherwise tWaist is the quotient by the denominator); a = 10, b = 10,
\* phi = 180 degrees yields {waistPosition: 0.5, waistRadius: 10}.
WaistFallbackExactlyWhenDegenerate ==
    waist # NoValue =>
        /\ WaistInputDegenerate =>
              /\ waist.tWaist = NoValue
              /\ waist.result.waistPosition = Norm(1, 2)
              /\ waist.result.waistRadius =
                    Surd(RMul(RAdd(waist.a, waist.b), Norm(1, 2)))
        /\ ~WaistInputDegenerate =>
              /\ waist.tWaist # NoValue
              /\ RMul(waist.tWaist, WaistInputDenominator) =
                    RAdd(RMul(waist.a, waist.a),
                         RMul(RMul(waist.a, waist.b), MathCos(TwistRadians(waist.phi))))
        /\ (waist.a = Int2R(10) /\ waist.b = Int2R(10)
               /\ waist.phi = [deg |-> 180, alpha |-> 0]) =>
              waist.result = [waistPosition |-> Norm(1, 2),
                              waistRadius   |-> Surd(Int2R(10))]

\* the early return taken on a = 10, b = 10, phi = 180 degrees
WaistFallbackTaken ==
    /\ waist # NoValue
    /\ waist.a = Int2R(10) /\ waist.b = Int2R(10)
    /\ waist.phi = [deg |-> 180, alpha |-> 0]
    /\ waist.tWaist = NoValue
    /\ waist.result.waistRadius = Surd(Int2R(10))

\* C9: for every a >= 0, b >= 0 and twist phi, calculateWaistGeometry returns
\* waistPosition in [0,1] and 0 <= waistRadius <= max(a, b).
WaistInRange ==
    waist # NoValue =>
        /\ RLe(Zero, waist.result.waistPosition)
        /\ RLe(waist.result.waistPosition, One)
        /\ SurdLe(Surd(Zero), waist.result.waistRadius)
        /\ SurdLe(waist.result.waistRadius,
                  Surd(IF RLt(waist.a, waist.b) THEN waist.b ELSE waist.a))

\* a waist whose unclamped critical point lies above 1 and was clamped to 1
WaistClamped ==
    /\ waist # NoValue
    /\ waist.tWaist # NoValue
    /\ RLt(One, waist.tWaist)
    /\ waist.result.waistPosition = One

\* the twist angles strictly between 0 and 90 degrees: 36.87 and 53.13
AcuteTwist(phi) ==
    phi \in { [deg |-> 0, alpha |-> 1], [deg |-> 90, alpha |-> -1] }

\* C10: for base radius > top radius > 0 and a twist strictly between 0 and
\* 90 degrees (as baseRadius = 60, topRadius = 5, twistAngle = 50 degrees),
\* calculateWaistGeometry returns a waistPosition strictly between 0 and 1
\* and a waistRadius strictly less than the base radius.
WaistOfTaperedSection ==
    (/\ waist # NoValue
     /\ RLt(Zero, waist.b) /\ RLt(waist.b, waist.a)
     /\ AcuteTwist(waist.phi)) =>
        /\ RLt(Zero, waist.result.waistPosition)
        /\ RLt(waist.result.waistPosition, One)
        /\ SurdLt(waist.result.waistRadius, Surd(waist.a))

\* the waist of baseRadius = 60, topRadius = 5 with an acute twist, computed
\* by the division
WaistOfDefaultTower ==
    /\ waist # NoValue
    /\ waist.a = Int2R(60) /\ waist.b = Int2R(5)
    /\ waist.phi = [deg |-> 0, alpha |-> 1]
    /\ waist.tWaist # NoValue
    /\ RLt(Zero, waist.result.waistPosition)
    /\ RLt(waist.result.waistPosition, One)

-----------------------------------------------------------------------------
(* Properties of the tower builders, checked under Spec *)

TowerBuilt == tower # NoValue

MultiSection == TowerBuilt /\ tower.variant \in {"weighted", "uniform"}

\* the sum of topY - bottomY over the first count sections
RECURSIVE SumOfSectionHeights(_, _)
SumOfSectionHeights(sections, count) ==
    IF count = 0
    THEN Zero
    ELSE RAdd(SumOfSectionHeights(sections, count - 1),
              RSub(sections[count].topY, sections[count].bottomY))

\* C1: for every height > 0 and sectionCount >= 1, the section boundaries of
\* the weighted and of the uniform createTower partition [0, height]: the
\* first boundary is 0, the last is height, each section's top is the next
\* section's bottom, the boundaries increase strictly and the section
\* heights sum to height.
SectionsPartitionHeight ==
    MultiSection =>
        LET secs == tower.sections
            n    == tower.params.sectionCount
        IN  /\ Len(secs) = n
            /\ secs[1].bottomY = Zero
            /\ secs[n].topY = tower.params.height
            /\ \A i \in 1..(n - 1) : secs[i].topY = secs[i + 1].bottomY
            /\ \A i \in 1..n : /\ RLt(secs[i].bottomY, secs[i].topY)
                               /\ secs[i].sectionHeight =
                                     RSub(secs[i].topY, secs[i].bottomY)
            /\ SumOfSectionHeights(secs, n) = tower.params.height

\* the weighted tower of height 300 in six sections: the boundaries are
\* 0, 600/7, 1100/7, 1500/7, 1800/7, 2000/7, 300
WeightedTowerOfSix ==
    /\ TowerBuilt
    /\ tower.variant = "weighted"
    /\ tower.params.sectionCount = 6
    /\ tower.params.height = Int2R(300)
    /\ tower.sections[1].topY = Norm(600, 7)
    /\ tower.sections[6].bottomY = Norm(2000, 7)
    /\ tower.sections[6].topY = Int2R(300)

\* C2: in the weighted variant section i of n has height
\* height * (n - i) / (n (n + 1) / 2), so the section heights decrease
\* strictly from the bottom section to the top section.
WeightedHeightsTriangular ==
    (TowerBuilt /\ tower.variant = "weighted") =>
        LET secs == tower.sections
            n    == tower.params.sectionCount
        IN  /\ \A i \in 0..(n - 1) :
                  secs[i + 1].sectionHeight =
                     RDiv(RMul(tower.params.height, Int2R(n - i)),
                          Int2R((n * (n + 1)) \div 2))
            /\ \A i \in 1..(n - 1) :
                  RLt(secs[i + 1].sectionHeight, secs[i].sectionHeight)

\* a weighted tower of height 60 in three sections of heights 30, 20, 10
WeightedHeightsOfThree ==
    /\ TowerBuilt
    /\ tower.variant = "weighted"
    /\ tower.params.sectionCount = 3
    /\ tower.params.height = Int2R(60)
    /\ tower.sections[1].sectionHeight = Int2R(30)
    /\ tower.sections[2].sectionHeight = Int2R(20)
    /\ tower.sections[3].sectionHeight = Int2R(10)

\* baseRadius + (topRadius - baseRadius) * (y / height) for the built tower
TaperedRadiusAt(y) ==
    RAdd(tower.params.baseRadius,
         RMul(RSub(tower.params.topRadius, tower.params.baseRadius),
              RDiv(y, tower.params.height)))

\* C3: the section radii form a continuous linear taper: section 0 starts at
\* baseRadius, the last section ends at topRadius, each section's top radius
\* is the next section's bottom radius, and the radius at a boundary is
\* baseRadius + (topRadius - baseRadius) * (boundaryHeight / height).
RadiiTaperLinearly ==
    TowerBuilt =>
        LET secs == tower.sections
            n    == Len(secs)
        IN  /\ secs[1].bottomRadius = tower.params.baseRadius
            /\ secs[n].topRadius = tower.params.topRadius
            /\ \A i \in 1..(n - 1) : secs[i].topRadius = secs[i + 1].bottomRadius
            /\ \A i \in 1..n :
                  /\ secs[i].bottomRadius = TaperedRadiusAt(secs[i].bottomY)
                  /\ secs[i].topRadius = TaperedRadiusAt(secs[i].topY)

\* a uniform tower from radius 60 to radius 5 in three sections: the radius
\* is 125/3 at the first inner boundary and 70/3 at the second
UniformTaperOfThree ==
    /\ TowerBuilt
    /\ tower.variant = "uniform"
    /\ tower.params.sectionCount = 3
    /\ tower.params.baseRadius = Int2R(60)
    /\ tower.params.topRadius = Int2R(5)
    /\ tower.sections[1].topRadius = Norm(125, 3)
    /\ tower.sections[3].bottomRadius = Norm(70, 3)

\* C4: in a multi-section tower the signed twist of section i is
\* +twistRadians when i is even and -twistRadians when i is odd, the full
\* twist angle in every section.
TwistAlternates ==
    MultiSection =>
        LET twistRadians == TwistRadians(tower.params.twistAngle)
        IN  \A i \in 0..(Len(tower.sections) - 1) :
               tower.sections[i + 1].twist =
                  IF i % 2 = 0
                  THEN twistRadians
                  ELSE [halfPi |-> -twistRadians.halfPi, alpha |-> -twistRadians.alpha]

\* six sections twisted by 53.13 degrees: +, -, +, -, +, -
TwistOfSixSections ==
    /\ MultiSection
    /\ tower.params.sectionCount = 6
    /\ tower.params.twistAngle = [deg |-> 0, alpha |-> 1]
    /\ \A i \in {1, 3, 5} : tower.sections[i].twist = [halfPi |-> 0, alpha |-> 1]
    /\ \A i \in {2, 4, 6} : tower.sections[i].twist = [halfPi |-> 0, alpha |-> -1]

\* the struts among the children of the built tower's group
StrutsOfGroup == SelectSeq(Group(tower), LAMBDA m : m.kind = "strut")

\* the point at angle theta_k + turn on the circle of a radius at height y,
\* theta_k = 2 pi k / strutCount
PointAtStrutAngle(k, turn, radius, y) ==
    LET angle == [halfPi |-> ((4 * k) \div tower.params.strutCount) + turn.halfPi,
                  alpha  |-> turn.alpha]
    IN  [x |-> RMul(radius, MathCos(angle)),
         y |-> y,
         z |-> RMul(radius, MathSin(angle))]

\* C5: for every section and every strut index k, createTower emits exactly
\* two struts that share the start point (a cos(theta_k), sectionBottomY,
\* a sin(theta_k)), one ending at angle theta_k + phi and one at
\* theta_k - phi on the top circle of radius b at sectionTopY; the tower
\* holds exactly 2 * strutCount * sectionCount struts.
TwoStrutsPerIndex ==
    TowerBuilt =>
        LET secs       == tower.sections
            strutCount == tower.params.strutCount
            noTurn     == [halfPi |-> 0, alpha |-> 0]
        IN  /\ MultiSection => Len(secs) = tower.params.sectionCount
            /\ ~MultiSection => Len(secs) = 1
            /\ Len(StrutsOfGroup) = 2 * strutCount * Len(secs)
            /\ \A s \in 1..Len(secs) :
                  /\ Len(secs[s].struts) = 2 * strutCount
                  /\ \A k \in 0..(strutCount - 1) :
                        LET cw    == secs[s].struts[2 * k + 1]
                            ccw   == secs[s].struts[2 * k + 2]
                            phi   == secs[s].twist
                            minus == [halfPi |-> -phi.halfPi, alpha |-> -phi.alpha]
                        IN  /\ cw.kind = "strut" /\ ccw.kind = "strut"
                            /\ cw.start = PointAtStrutAngle(k, noTurn,
                                             secs[s].bottomRadius, secs[s].bottomY)
                            /\ ccw.start = cw.start
                            /\ cw.end = PointAtStrutAngle(k, phi,
                                             secs[s].topRadius, secs[s].topY)
                            /\ ccw.end = PointAtStrutAngle(k, minus,
                                             secs[s].topRadius, secs[s].topY)

\* a weighted tower of two sections and four strut indices, twisted by 53.13
\* degrees, holds sixteen struts, and its two families end at different points
SixteenStruts ==
    /\ TowerBuilt
    /\ tower.variant = "weighted"
    /\ tower.params.sectionCount = 2
    /\ tower.params.strutCount = 4
    /\ tower.params.twistAngle = [deg |-> 0, alpha |-> 1]
    /\ tower.params.topRadius = Int2R(5)
    /\ Len(StrutsOfGroup) = 16
    /\ tower.sections[2].struts[1].end # tower.sections[2].struts[2].end

\* (1-t)^2 a^2 + t^2 b^2 + 2 (1-t) t a b cos(phi)
SurfaceRadiusSquared(t, a, b, cosPhi) ==
    LET u == RSub(One, t)
    IN  RAdd(RAdd(RMul(RMul(u, u), RMul(a, a)), RMul(RMul(t, t), RMul(b, b))),
             RMul(RMul(Int2R(2), RMul(u, t)), RMul(RMul(a, b), cosPhi)))

\* the point (1-t) * start + t * end of a strut
PointOnStrut(strut, t) ==
    LET u == RSub(One, t)
    IN  [x |-> RAdd(RMul(u, strut.start.x), RMul(t, strut.end.x)),
         y |-> RAdd(RMul(u, strut.start.y), RMul(t, strut.end.y)),
         z |-> RAdd(RMul(u, strut.start.z), RMul(t, strut.end.z))]

\* the square of the distance of a point from the tower's axis
AxisDistanceSquared(point) == RAdd(RMul(point.x, point.x), RMul(point.z, point.z))

\* the index i of the j-th ring of section s (1-based): the i = 0 ring is
\* present in the first section only
RingIndex(s, j) == IF s = 1 THEN j - 1 ELSE j

\* C6: for every section, strut index and ruling family, and every sampled
\* t in [0,1], the point (1-t) start + t end of the strut lies at distance
\* sqrt((1-t)^2 a^2 + t^2 b^2 + 2 (1-t) t a b cos(phi)) from the axis,
\* whatever the start angle and the sign of phi; hence every ring passes
\* through every strut of its section at the ring's height.
StrutsLieOnRuledSurface ==
    TowerBuilt =>
        \A s \in 1..Len(tower.sections) :
            LET sec    == tower.sections[s]
                cosPhi == MathCos(sec.twist)
            IN  \A m \in 1..Len(sec.struts) :
                   /\ \A k \in 0..SampleCount :
                         AxisDistanceSquared(PointOnStrut(sec.struts[m],
                                                          Norm(k, SampleCount)))
                            = SurfaceRadiusSquared(Norm(k, SampleCount),
                                                   sec.bottomRadius, sec.topRadius, cosPhi)
                   /\ \A j \in 1..Len(sec.rings) :
                         LET t == RDiv(Int2R(RingIndex(s, j)),
                                       Int2R(tower.params.ringCount))
                             point == PointOnStrut(sec.struts[m], t)
                         IN  /\ sec.rings[j].kind = "ring"
                             /\ sec.rings[j].height = point.y
                             /\ sec.rings[j].radius.sq = AxisDistanceSquared(point)
                             /\ ~sec.rings[j].radius.neg

\* a twisted, tapered section of a three-section tower with its rings: the
\* middle ring of the second section is narrower than the cone's
RingsOnTwistedSection ==
    /\ TowerBuilt
    /\ tower.variant = "weighted"
    /\ tower.params.sectionCount = 3
    /\ tower.params.strutCount = 4
    /\ tower.params.ringCount = 2
    /\ tower.params.twistAngle = [deg |-> 90, alpha |-> 1]
    /\ tower.params.baseRadius = Int2R(60)
    /\ Len(tower.sections[2].rings) = 2
    /\ SurdLt(tower.sections[2].rings[1].radius,
              Surd(RMul(Norm(1, 2), RAdd(tower.sections[2].bottomRadius,
                                         tower.sections[2].topRadius))))

\* the ring on the bottom circle of section s (1-based): the first ring of
\* the first section, the last ring of the section below for the others
BottomRing(s) ==
    IF s = 1
    THEN tower.sections[1].rings[1]
    ELSE tower.sections[s - 1].rings[Len(tower.sections[s - 1].rings)]

\* C11: for every valid (a, b, phi), getStrutRadiusAtHeight(0, a, b, phi) = a
\* and getStrutRadiusAtHeight(1, a, b, phi) = b, so the first ring of a
\* section has the section's bottom radius and its last ring (i = ringCount)
\* has the section's top radius.
RingsInterpolateEndCircles ==
    TowerBuilt =>
        \A s \in 1..Len(tower.sections) :
            LET sec == tower.sections[s]
                phi == AngleAbs(sec.twist)
            IN  /\ getStrutRadiusAtHeight(Zero, sec.bottomRadius, sec.topRadius, phi)
                      = Surd(sec.bottomRadius)
                /\ getStrutRadiusAtHeight(One, sec.bottomRadius, sec.topRadius, phi)
                      = Surd(sec.topRadius)
                /\ tower.params.showRings =>
                      /\ Len(sec.rings) >= 1
                      /\ BottomRing(s).radius = Surd(sec.bottomRadius)
                      /\ BottomRing(s).height = sec.bottomY
                      /\ sec.rings[Len(sec.rings)].radius = Surd(sec.topRadius)
                      /\ sec.rings[Len(sec.rings)].height = sec.topY

\* a twisted weighted tower of two sections from radius 60 to radius 5: its
\* lowest ring has radius 60, its highest radius 5, and the ring in the
\* middle of the lower section is not on either end circle
EndRingsOfTwoSections ==
    /\ TowerBuilt
    /\ tower.variant = "weighted"
    /\ tower.params.sectionCount = 2
    /\ tower.params.ringCount = 2
    /\ tower.params.showRings
    /\ tower.params.twistAngle = [deg |-> 0, alpha |-> 1]
    /\ tower.params.baseRadius = Int2R(60)
    /\ tower.sections[1].rings[1].radius = Surd(Int2R(60))
    /\ tower.sections[2].rings[2].radius = Surd(Int2R(5))
    /\ tower.sections[1].rings[2].radius # Surd(tower.sections[1].bottomRadius)
    /\ tower.sections[1].rings[2].radius # Surd(tower.sections[1].topRadius)

\* the rings among the children of the built tower's group
RingsOfGroup == SelectSeq(Group(tower), LAMBDA m : m.kind = "ring")

\* C12: for every sectionCount >= 1 and ringCount >= 1 a multi-section
\* createTower emits exactly sectionCount * ringCount + 1 rings when showRings
\* is true (the i = 0 ring is emitted for section 0 only, so no two rings
\* share a height) and no ring when showRings is false; sectionCount = 2,
\* ringCount = 4 gives 9 rings, not 10.
RingsDeduplicated ==
    MultiSection =>
        LET secs      == tower.sections
            ringCount == tower.params.ringCount
        IN  IF tower.params.showRings
            THEN /\ Len(RingsOfGroup) = tower.params.sectionCount * ringCount + 1
                 /\ Len(secs[1].rings) = ringCount + 1
                 /\ secs[1].rings[1].height = secs[1].bottomY
                 /\ \A s \in 2..Len(secs) :
                       /\ Len(secs[s].rings) = ringCount
                       /\ \A j \in 1..ringCount :
                             RLt(secs[s].bottomY, secs[s].rings[j].height)
                 /\ \A j \in 1..(Len(RingsOfGroup) - 1) :
                       RLt(RingsOfGroup[j].height, RingsOfGroup[j + 1].height)
                 /\ (tower.params.sectionCount = 2 /\ ringCount = 4) =>
                       Len(RingsOfGroup) = 9
            ELSE Len(RingsOfGroup) = 0

\* two sections of four rings each: nine rings, one of them on the shared
\* boundary
NineRings ==
    /\ MultiSection
    /\ tower.params.sectionCount = 2
    /\ tower.params.ringCount = 4
    /\ tower.params.showRings
    /\ Len(RingsOfGroup) = 9
    /\ RingsOfGroup[5].height = tower.sections[2].bottomY
    /\ RingsOfGroup[6].height # tower.sections[2].bottomY

\* a finite, non-NaN number
FiniteNumber(x) == x.d > 0

\* the non-negative square root of a finite number
FiniteRoot(u) == ~u.neg /\ FiniteNumber(u.sq) /\ RLe(Zero, u.sq)

FiniteVector(v) == FiniteNumber(v.x) /\ FiniteNumber(v.y) /\ FiniteNumber(v.z)

FiniteMesh(m) ==
    IF m.kind = "strut"
    THEN FiniteVector(m.start) /\ FiniteVector(m.end) /\ FiniteNumber(m.radius)
    ELSE FiniteRoot(m.radius) /\ FiniteNumber(m.height) /\ FiniteNumber(m.tubeRadius)

\* height > 0, sectionCount >= 1, strutCount >= 1, ringCount >= 1, radii >= 0
ValidParams(p) ==
    /\ FiniteNumber(p.height) /\ RLt(Zero, p.height)
    /\ p.sectionCount >= 1 /\ p.strutCount >= 1 /\ p.ringCount >= 1
    /\ FiniteNumber(p.baseRadius) /\ RLe(Zero, p.baseRadius)
    /\ FiniteNumber(p.topRadius) /\ RLe(Zero, p.topRadius)

\* C13: for every input in the valid domain (height > 0, counts >= 1, radii
\* >= 0 including zero, any twist including 0 and 180 degrees) createTower
\* and calculateWaistGeometry divide by no zero and take the square root of
\* no negative number: every quotient they form, every produced coordinate,
\* ring height, ring radius and waist value is a finite, non-NaN number.
OutputsAreFinite ==
    /\ (TowerBuilt /\ ValidParams(tower.params)) =>
          /\ \A s \in 1..Len(tower.sections) :
                LET sec == tower.sections[s]
                IN  /\ FiniteNumber(sec.bottomY) /\ FiniteNumber(sec.topY)
                    /\ FiniteNumber(sec.sectionHeight)
                    /\ FiniteNumber(sec.bottomRadius) /\ FiniteNumber(sec.topRadius)
          /\ \A m \in 1..Len(Group(tower)) : FiniteMesh(Group(tower)[m])
    /\ (waist # NoValue /\ ValidParams(params)) =>
          /\ FiniteNumber(waist.denominator)
          /\ waist.tWaist # NoValue => FiniteNumber(waist.tWaist)
          /\ FiniteNumber(waist.result.waistPosition)
          /\ FiniteRoot(waist.result.waistRadius)

\* the section between two circles of radius 10 twisted by 180 degrees, with
\* its rings (the middle ring has radius 0) and its waist, whose denominator
\* is 0
FiniteOnDegenerateSection ==
    /\ TowerBuilt
    /\ tower.variant = "waist"
    /\ tower.params.showRings
    /\ tower.params.ringCount = 2
    /\ tower.sections[1].rings[2].radius = Surd(Zero)
    /\ waist # NoValue
    /\ waist.denominator = Zero
    /\ waist.tWaist = NoValue
    /\ FiniteRoot(waist.result.waistRadius)

\* the strut segments and rings of a section, as a set
MeshesOfSection(sec) ==
    { sec.struts[m] : m \in 1..Len(sec.struts) } \cup
    { sec.rings[j] : j \in 1..Len(sec.rings) }

\* the section s (1-based) of the built tower, generated with the opposite
\* signed twist
SectionWithOppositeTwist(s) ==
    SectionMeshes(tower.params, s - 1,
                  [tower.sections[s] EXCEPT !.twist = AngleNeg(tower.sections[s].twist)])

\* C14: the twist alternation is observable in the output: for a section of
\* a multi-section tower (twisted by no multiple of 180 degrees), replacing
\* its signed twist by the opposite sign changes the set of strut segments
\* and rings that createTower produces for that section.
TwistSignObservable ==
    (MultiSection /\ MathSin(TwistRadians(tower.params.twistAngle)) # Zero) =>
        \A s \in 1..Len(tower.sections) :
            MeshesOfSection(SectionWithOppositeTwist(s))
               # MeshesOfSection(tower.sections[s])

\* C15: with sectionCount = 1 the multi-section createTower produces the same
\* strut segments and the same rings (heights and radii) as the
\* single-section createTower for the same height, baseRadius, topRadius,
\* strutCount, ringCount, showRings and twistAngle: one section spanning
\* [0, height] from baseRadius to topRadius with twist +twistRadians and
\* ringCount + 1 rings.
OneSectionIsSingleTower ==
    (MultiSection /\ tower.params.sectionCount = 1) =>
        LET sec    == tower.sections[1]
            single == createTowerSingle(tower.params)
        IN  /\ Len(tower.sections) = 1
            /\ sec.bottomY = Zero
            /\ sec.topY = tower.params.height
            /\ sec.bottomRadius = tower.params.baseRadius
            /\ sec.topRadius = tower.params.topRadius
            /\ sec.twist = TwistRadians(tower.params.twistAngle)
            /\ tower.params.showRings => Len(sec.rings) = tower.params.ringCount + 1
            /\ Group(tower) = Group(single)

\* the weighted tower of one twisted section with its three rings, the
\* children of its group being those of the single-section tower
WeightedTowerOfOne ==
    /\ TowerBuilt
    /\ tower.variant = "weighted"
    /\ tower.params.sectionCount = 1
    /\ tower.params.strutCount = 4
    /\ tower.params.ringCount = 2
    /\ tower.params.showRings
    /\ tower.params.twistAngle = [deg |-> 90, alpha |-> 1]
    /\ Len(Group(tower)) = 11
    /\ Group(tower) = Group(createTowerSingle(tower.params))

\* the built tower's parameters with other waist values
WithWaist(waistRadius, waistPosition, autoWaist) ==
    [tower.params EXCEPT !.waistRadius   = waistRadius,
                         !.waistPosition = waistPosition,
                         !.autoWaist     = autoWaist]

\* C20: in the waist variant the struts and rings produced by createTower
\* are identical for any two parameter objects that differ only in
\* waistRadius, waistPosition and autoWaist.
WaistValuesDoNotShapeTower ==
    (TowerBuilt /\ tower.variant = "waist") =>
        \A waistRadius \in WaistSliderRadii, waistPosition \in WaistSliderPositions,
           autoWaist \in BOOLEAN :
            Group(createTowerWaist(WithWaist(waistRadius, waistPosition, autoWaist)))
               = Group(tower)

\* the tower of src/src/tower.ts built with the automatic waist, and its
\* eleven meshes built again with a manual waist of radius 5 at 0.1
SameTowerWithManualWaist ==
    /\ TowerBuilt
    /\ tower.variant = "waist"
    /\ tower.params.autoWaist
    /\ tower.params.waistRadius = Surd(Int2R(20))
    /\ tower.params.strutCount = 4
    /\ tower.params.ringCount = 2
    /\ tower.params.showRings
    /\ Len(Group(tower)) = 11
    /\ Group(createTowerWaist(WithWaist(Surd(Int2R(5)), Norm(1, 10), FALSE)))
          = Group(tower)

-----------------------------------------------------------------------------
(* Properties of the page, checked under SpecApp *)

\* the parameter object without its waist values
GeometryParams(p) ==
    [p EXCEPT !.waistRadius = InitialWaistRadius,
              !.waistPosition = InitialWaistPosition,
              !.autoWaist = TRUE]

\* C16: after the initial build and after every parameter-change event of
\* the control panel completes, the scene contains exactly one tower group,
\* that group was created by createTower from the current parameter values,
\* and the group of the previous build is no longer in the scene.
SceneHoldsCurrentTower ==
    pc \in {"setup", "run"} =>
        /\ tower # NoValue
        /\ builds >= 1
        /\ scene = {builds}
        /\ \A previous \in 1..(builds - 1) : previous \notin scene
        /\ GeometryParams(tower.params) = GeometryParams(params)
        /\ Group(tower) = Group(createTowerWeighted(params))

\* the third tower of a run, built after the height and the strut count were
\* changed, alone in the scene
ThirdTowerAlone ==
    /\ pc = "run"
    /\ builds = 3
    /\ scene = {3}
    /\ params.height = Int2R(60)
    /\ params.strutCount = 2
    /\ tower.params.height = Int2R(60)
    /\ tower.params.strutCount = 2
    /\ tower.params.sectionCount = 6
    /\ Len(tower.sections[1].struts) = 4

\* C17: every parameter object handed to createTower (at the initial build,
\* after any query-string override applied by applyQueryParams, and after
\* any sequence of control-panel changes) has been validated by the caller:
\* height > 0 and no negative or zero sectionCount, strutCount or ringCount.
ParamsValidatedByCaller ==
    tower # NoValue =>
        /\ FiniteNumber(tower.params.height)
        /\ RLt(Zero, tower.params.height)
        /\ tower.params.sectionCount >= 1
        /\ tower.params.strutCount >= 1
        /\ tower.params.ringCount >= 1

\* C18: disposeTower(group) disposes every geometry and every material that
\* createTower created while building that group, for every parameter value
\* (showRings = false included), so after any sequence of rebuilds no
\* geometry or material created by a replaced build remains undisposed
\* (stated of each rebuild that replaces a group built from valid parameters).
ReplacedBuildIsDisposed ==
    [][ (tower # NoValue /\ builds' = builds + 1 /\ ValidParams(tower.params)) =>
           \A resource \in undisposed' : resource.build # builds ]_vars

\* calculateWaistGeometry(baseRadius, topRadius, twistAngle * pi / 180)
WaistOf(p) ==
    calculateWaistGeometry(p.baseRadius, p.topRadius, TwistRadians(p.twistAngle))

\* the step changes baseRadius, topRadius, twistAngle or autoWaist
WaistInputChanged ==
    \/ params'.baseRadius # params.baseRadius
    \/ params'.topRadius # params.topRadius
    \/ params'.twistAngle # params.twistAngle
    \/ params'.autoWaist # params.autoWaist

\* C19: once setupControls has returned, and after every control change
\* event completes, if params.autoWaist is true then params.waistRadius and
\* params.waistPosition equal calculateWaistGeometry(baseRadius, topRadius,
\* twistAngle * pi / 180) for the current parameters; for changes of
\* baseRadius, topRadius, twistAngle and autoWaist the update has happened
\* when onUpdate runs (the tower is built from the updated parameters), and
\* when autoWaist is false those events leave the two values unchanged.
AutoWaistKeptCurrent ==
    [][ pc' = "run" =>
          /\ params'.autoWaist =>
                /\ params'.waistRadius = WaistOf(params').waistRadius
                /\ params'.waistPosition = WaistOf(params').waistPosition
          /\ (pc = "run" /\ WaistInputChanged) =>
                /\ tower'.params = params'
                /\ ~params'.autoWaist =>
                      /\ params'.waistRadius = params.waistRadius
                      /\ params'.waistPosition = params.waistPosition ]_vars

\* the automatic waist after the twist was changed to 180 degrees: the top
\* circle, of radius 5, and the tower was rebuilt with it
AutoWaistAfterTwistChange ==
    /\ pc = "run"
    /\ builds = 2
    /\ params.autoWaist
    /\ params.twistAngle = [deg |-> 180, alpha |-> 0]
    /\ params.baseRadius = Int2R(60)
    /\ params.topRadius = Int2R(5)
    /\ params.waistPosition = One
    /\ params.waistRadius = MathSqrt(Int2R(25))
    /\ tower.params = params

=============================================================================
